---- MODULE Spec2Model ----
(***************************************************************************)
(* A model of the histocartography explainability utilities:               *)
(*   - utils/graph.py: adj_to_networkx, adj_to_dgl                         *)
(*   - interpretability/saliency_explainer/cam.py: _LegacyCAM, _CAM        *)
(*   - interpretability/pruning_explainer/explainer_model.py:              *)
(*     ExplainerModel                                                      *)
(* Each subsystem has its own specification (SpecGraph, SpecCam,           *)
(* SpecExplainer, SpecMask) over its own variables; the variables of the   *)
(* other subsystems stay at their idle values.                             *)
(***************************************************************************)
EXTENDS Integers, Sequences, FiniteSets, TLC

VARIABLES
    gAdj,        \* graph.py: the adjacency matrix object passed as `adj`
    gThreshold,  \* graph.py: the `threshold` argument
    gPc,         \* graph.py: "input" before the call, "returned" after it
    gRet         \* graph.py: what the call returned or raised

VARIABLES
    handles,        \* cam.py: every hook handle register_forward_hook returned, in order
    attached,       \* cam.py: the handles (indices) still registered on the model
    legacyHandles,  \* cam.py: the class attribute _LegacyCAM.hook_handles
    ext,            \* cam.py: the extractor objects, by identity
    passes,         \* cam.py: forward passes run through the hooked model so far
    lastCall        \* cam.py: outcome of the last constructor, forward or __call__

VARIABLES
    self,   \* explainer_model.py: the ExplainerModel instance (its attributes)
    built,  \* explainer_model.py: the instance as __init__ left it
    eRet    \* explainer_model.py: outcome of the last constructor or method call

graphVars == <<gAdj, gThreshold, gPc, gRet>>
camVars == <<handles, attached, legacyHandles, ext, passes, lastCall>>
explVars == <<self, built, eRet>>

vars == <<graphVars, camVars, explVars>>

(***************************************************************************)
(* Generic helpers                                                         *)
(***************************************************************************)
None == "None"

Max(a, b) == IF a >= b THEN a ELSE b

(***************************************************************************)
(* interpretability/saliency_explainer/cam.py                              *)
(***************************************************************************)
\* Extractor objects that can be constructed in one run.
MaxExt == 2
\* Forward passes through the hooked model in one run.
MaxPasses == 3
\* Longest conv_layers list handed to _CAM.
MaxConvLayers == 2

ExtIds == 1 .. MaxExt
\* The named sub-modules of the hooked model, in the order its forward runs them.
LayerOrder == <<"conv1", "conv2">>
Layers == {LayerOrder[k] : k \in 1 .. Len(LayerOrder)}
\* A name that is no attribute of the model.
MissingLayer == "missing"
LayerNames == Layers \cup {MissingLayer}
ClassIdxs == {-1, 0, 1}

ConvLayerLists ==
    UNION {[1 .. n -> LayerNames] : n \in 1 .. MaxConvLayers}

\* hasattr(model, conv_layer)
HasAttr(conv_layer) == conv_layer \in Layers

\* output.data of layer `layer` in forward pass number `pass`.
Activation(pass, layer) == [pass |-> pass, layer |-> layer]

\* The attribute hook_a: None (the class attribute of _LegacyCAM), one tensor
\* (data of length 1, _LegacyCAM after a hook ran) or a list of tensors (_CAM).
NoneBuffer == [isNone |-> TRUE, data |-> <<>>]
ListBuffer(data) == [isNone |-> FALSE, data |-> data]

\* An extractor slot no constructor has run for.
NoExtractor ==
    [kind |-> "none", hook_a |-> NoneBuffer, hook_handles |-> <<>>,
     hooks_enabled |-> "unset"]

CamIdle ==
    /\ handles = <<>>
    /\ attached = {}
    /\ legacyHandles = <<>>
    /\ ext = [e \in ExtIds |-> NoExtractor]
    /\ passes = 0
    /\ lastCall = [op |-> "none", error |-> None]

CamInit == CamIdle

\* module.register_forward_hook(self._hook_a): the new handle's index.
NewHandle(hs) == Len(hs) + 1

\* _LegacyCAM.__init__(model, conv_layer) for the object e.
LegacyInit(e, conv_layer) ==
    /\ ext[e].kind = "none"
    /\ IF ~HasAttr(conv_layer)
       THEN /\ lastCall' = [op |-> "_LegacyCAM.__init__", ext |-> e,
                            error |-> "ValueError"]
            /\ UNCHANGED <<handles, attached, legacyHandles, ext>>
       ELSE /\ handles' = Append(handles, [layer |-> conv_layer, owner |-> e])
            /\ attached' = attached \cup {NewHandle(handles)}
            \* self.hook_handles is the list shared by the class
            /\ legacyHandles' = Append(legacyHandles, NewHandle(handles))
            /\ ext' = [ext EXCEPT ![e] =
                         [kind |-> "legacy", hook_a |-> NoneBuffer,
                          hook_handles |-> <<>>, hooks_enabled |-> "on"]]
            /\ lastCall' = [op |-> "_LegacyCAM.__init__", ext |-> e,
                            error |-> None]
    /\ UNCHANGED <<passes, graphVars, explVars>>

\* The loop of _CAM.__init__ over conv_layers[k ..]: the handles registered
\* before the first missing name, and whether a name was missing.
RECURSIVE RegisterAll(_, _, _, _)
RegisterAll(conv_layers, k, e, acc) ==
    IF k > Len(conv_layers)
    THEN [registered |-> acc, error |-> None]
    ELSE IF ~HasAttr(conv_layers[k])
    THEN [registered |-> acc, error |-> "ValueError"]
    ELSE RegisterAll(conv_layers, k + 1, e,
                     Append(acc, [layer |-> conv_layers[k], owner |-> e]))

\* _CAM.__init__(model, conv_layers) for the object e.
CamConstruct(e, conv_layers) ==
    LET r == RegisterAll(conv_layers, 1, e, <<>>)
        ids == [k \in 1 .. Len(r.registered) |-> Len(handles) + k]
    IN  /\ ext[e].kind = "none"
        /\ handles' = handles \o r.registered
        /\ attached' = attached \cup {ids[k] : k \in 1 .. Len(ids)}
        /\ ext' = [ext EXCEPT ![e] =
                     IF r.error = None
                     THEN [kind |-> "cam", hook_a |-> ListBuffer(<<>>),
                           hook_handles |-> ids, hooks_enabled |-> "on"]
                     ELSE \* the constructor raised before _hooks_enabled was set;
                          \* the registered bound methods keep the object alive
                          [kind |-> "failed", hook_a |-> ListBuffer(<<>>),
                           hook_handles |-> ids, hooks_enabled |-> "unset"]]
        /\ lastCall' = [op |-> "_CAM.__init__", ext |-> e, error |-> r.error]
        /\ UNCHANGED <<legacyHandles, passes, graphVars, explVars>>

\* _LegacyCAM._hook_a / _CAM._hook_a of the object x on `output`: the object
\* afterwards, or the error the hook raised.
HookA(obj, output) ==
    IF obj.hooks_enabled = "unset"
    THEN [error |-> "AttributeError", obj |-> obj]
    ELSE IF obj.hooks_enabled = "off"
    THEN [error |-> None, obj |-> obj]
    ELSE IF obj.kind = "legacy"
    THEN [error |-> None, obj |-> [obj EXCEPT !.hook_a = ListBuffer(<<output>>)]]
    ELSE [error |-> None,
          obj |-> [obj EXCEPT !.hook_a = ListBuffer(Append(obj.hook_a.data, output))]]

\* The attached handles on `layer`, in registration order.
HooksOn(layer) ==
    LET On(h) == h \in attached /\ handles[h].layer = layer
    IN  SelectSeq([h \in 1 .. Len(handles) |-> h], On)

\* The hooks a forward pass fires: layer by layer, each layer's in
\* registration order.
RECURSIVE FireOrder(_)
FireOrder(k) ==
    IF k > Len(LayerOrder) THEN <<>>
    ELSE HooksOn(LayerOrder[k]) \o FireOrder(k + 1)

\* Runs the hooks order[k ..] of forward pass `pass` on the objects xs.
RECURSIVE RunHooks(_, _, _, _)
RunHooks(order, k, pass, xs) ==
    IF k > Len(order) THEN [error |-> None, ext |-> xs]
    ELSE LET h == handles[order[k]]
             r == HookA(xs[h.owner], Activation(pass, h.layer))
         IN  IF r.error # None
             THEN [error |-> r.error, ext |-> xs]
             ELSE RunHooks(order, k + 1, pass,
                           [xs EXCEPT ![h.owner] = r.obj])

\* One forward pass of the caller through the hooked model.
Forward ==
    /\ passes < MaxPasses
    /\ LET r == RunHooks(FireOrder(1), 1, passes + 1, ext)
       IN  /\ ext' = r.ext
           /\ lastCall' = [op |-> "forward", pass |-> passes + 1, error |-> r.error]
    /\ passes' = passes + 1
    /\ UNCHANGED <<handles, attached, legacyHandles, graphVars, explVars>>

\* The outcome of an extractor's __call__: the error raised (or None), whether
\* _get_weights was reached, and the activations the returned CAM combines.
CallResult(e, class_idx, error, weights, uses) ==
    [op |-> "__call__", ext |-> e, class_idx |-> class_idx, error |-> error,
     weights |-> weights, uses |-> uses]

\* _LegacyCAM.compute_cams: _get_weights (the subclass's), then the weighted
\* combination with self.hook_a.
LegacyComputeCams(e, class_idx) ==
    IF ext[e].hook_a.isNone
    THEN \* self.hook_a.squeeze(0) on None
         CallResult(e, class_idx, "AttributeError", TRUE, <<>>)
    ELSE CallResult(e, class_idx, None, TRUE, ext[e].hook_a.data)

\* _LegacyCAM.__call__: the _precheck call is commented out.
LegacyCall(e, class_idx) == LegacyComputeCams(e, class_idx)

\* _CAM._precheck: the error it raises, or None.
CamPrecheck(e, class_idx) ==
    IF ext[e].hook_a.isNone THEN "AssertionError"
    ELSE IF class_idx < 0 THEN "ValueError"
    ELSE None   \* _score_used is False

\* _CAM.compute_cams: _get_weights (the subclass's), then torch.stack of the
\* whole buffer.
CamComputeCams(e, class_idx) ==
    IF ext[e].hook_a.data = <<>>
    THEN \* torch.stack of an empty list
         CallResult(e, class_idx, "RuntimeError", TRUE, <<>>)
    ELSE CallResult(e, class_idx, None, TRUE, ext[e].hook_a.data)

\* _CAM.__call__
CamCall(e, class_idx) ==
    LET err == CamPrecheck(e, class_idx)
    IN  IF err # None
        THEN CallResult(e, class_idx, err, FALSE, <<>>)
        ELSE CamComputeCams(e, class_idx)

\* extractor(class_idx) by the caller.
Call(e, class_idx) ==
    /\ ext[e].kind \in {"legacy", "cam"}
    /\ lastCall' = IF ext[e].kind = "legacy"
                   THEN LegacyCall(e, class_idx)
                   ELSE CamCall(e, class_idx)
    /\ UNCHANGED <<handles, attached, legacyHandles, ext, passes, graphVars, explVars>>

\* The handles clear_hooks of e removes: every handle of the list
\* self.hook_handles resolves to.
ClearedBy(e) ==
    LET hs == IF ext[e].kind = "legacy" THEN legacyHandles ELSE ext[e].hook_handles
    IN  {hs[k] : k \in 1 .. Len(hs)}

\* extractor.clear_hooks() by the caller.
ClearHooks(e) ==
    /\ ext[e].kind \in {"legacy", "cam"}
    /\ attached' = attached \ ClearedBy(e)
    /\ lastCall' = [op |-> "clear_hooks", ext |-> e, error |-> None]
    /\ UNCHANGED <<handles, legacyHandles, ext, passes, graphVars, explVars>>

\* The caller toggles extractor._hooks_enabled.
SetHooksEnabled(e, b) ==
    /\ ext[e].kind \in {"legacy", "cam"}
    /\ ext[e].hooks_enabled # b
    /\ ext' = [ext EXCEPT ![e].hooks_enabled = b]
    /\ lastCall' = [op |-> "_hooks_enabled", ext |-> e, error |-> None]
    /\ UNCHANGED <<handles, attached, legacyHandles, passes, graphVars, explVars>>

CamNext ==
    \/ \E e \in ExtIds, conv_layer \in LayerNames : LegacyInit(e, conv_layer)
    \/ \E e \in ExtIds, conv_layers \in ConvLayerLists : CamConstruct(e, conv_layers)
    \/ Forward
    \/ \E e \in ExtIds, class_idx \in ClassIdxs : Call(e, class_idx)
    \/ \E e \in ExtIds : ClearHooks(e)
    \/ \E e \in ExtIds, b \in {"on", "off"} : SetHooksEnabled(e, b)


(***************************************************************************)
(* interpretability/pruning_explainer/explainer_model.py                   *)
(***************************************************************************)
\* Number of nodes of the explained graph (adj is NumExplNodes x NumExplNodes).
NumExplNodes == 2

ENodes == 0 .. (NumExplNodes - 1)
\* Raw (pre-activation) mask values, in units of 1.0.
EdgeRaw == {-1, 1}
NodeRaw == {0, 1, 2}
\* Activated mask values and products with them are fixed-point numbers in
\* units of 1e-8.
One == 10^8
\* Values of model_params['mask_activation'] a caller passes; "tanh" stands
\* for any unsupported value.
MaskActivations == {"sigmoid", "relu", "tanh"}
InitStrategies == {"normal", "const"}
\* Adjacency matrices of the explained graph: every 0/1 matrix, symmetric or
\* directed, with or without self-loops.
EAdjs == [ENodes -> [ENodes -> {0, 1}]]
\* init_probs (1 x K, K = 2), in percent.
InitProbs == {<<30, 70>>, <<50, 50>>, <<70, 30>>}
\* The versions the wrapped model's parameters can take; 0 is the trained model.
ModelParams == {0, 1}

\* torch.argmax(init_probs, dim=1): the index (0-based) of the first maximum.
ArgMax(probs) ==
    (CHOOSE k \in 1 .. Len(probs) :
        /\ \A j \in 1 .. Len(probs) : probs[j] <= probs[k]
        /\ \A j \in 1 .. (k - 1) : probs[j] < probs[k]) - 1

\* ExplainerModel.sigmoid(x, t) = 1 / (1 + exp(-t * x)) in float32, tabulated
\* for the products t * x the raw values give (t = 2 on EdgeRaw, t = 10 on
\* NodeRaw); at t * x = 20 float32 rounds 1 + exp(-20) to 1.0 and the result
\* is exactly 1.0.
sigmoid(x, t) ==
    CASE t * x = -2  -> 11920292
      [] t * x = 0   -> 50000000
      [] t * x = 2   -> 88079703
      [] t * x = 10  -> 99995458
      [] t * x = 20  -> One

\* nn.ReLU()(x)
ReLU(x) == Max(x, 0) * One

\* _build_edge_mask: the raw masks the init strategy can produce ("normal"
\* draws every entry; "const" fills with const_val = 1.0).
BuildEdgeMask(init_strategy) ==
    IF init_strategy = "const"
    THEN {[i \in ENodes |-> [j \in ENodes |-> 1]]}
    ELSE [ENodes -> [ENodes -> EdgeRaw]]

\* _build_node_mask(num_nodes, init_strategy='const'): filled with 1.0.
BuildNodeMask == [n \in ENodes |-> 1]

\* _build_optimizer: the parameters Adam is bound to.
BuildOptimizerMutant(params) == [params |-> params \cup {"model"}]
BuildOptimizer(params) == [params |-> params]

\* The attributes of an instance no constructor has run for.
NoInstance == [constructed |-> FALSE]

ExplIdle ==
    /\ self = NoInstance
    /\ built = NoInstance
    /\ eRet = [op |-> "none", error |-> None]

ExplInit == ExplIdle

\* ExplainerModel.__init__: the instance it builds. mask_activation is
\* stored as given; nothing checks it.
NewExplainer(adj, x, init_probs, mask_activation, mask) ==
    [constructed |-> TRUE,
     adj |-> adj,
     x |-> x,
     model |-> 0,
     init_probs |-> init_probs,
     label |-> ArgMax(init_probs),
     mask_act |-> mask_activation,
     mask |-> mask,
     node_mask |-> BuildNodeMask,
     diag_mask |-> [i \in ENodes |-> [j \in ENodes |-> IF i = j THEN 0 ELSE 1]],
     optimizer |-> BuildOptimizer({"mask", "node_mask"})]

\* ExplainerModel(model, adj, x, init_probs, model_params, train_params) by
\* the caller, with model_params['init'] among `inits`, init_probs among
\* `probs` and model_params['mask_activation'] among `acts`.
Construct(inits, probs, acts) ==
    /\ ~self.constructed
    /\ \E adj \in EAdjs, init_probs \in probs,
          mask_activation \in acts, init_strategy \in inits :
          \E mask \in BuildEdgeMask(init_strategy) :
             LET new == NewExplainer(adj, [n \in ENodes |-> n + 1], init_probs,
                                     mask_activation, mask)
             IN  /\ self' = new
                 /\ built' = new
                 /\ eRet' = [op |-> "__init__", error |-> None,
                             mask_activation |-> mask_activation]
    /\ UNCHANGED <<camVars, graphVars>>

UnsupportedActivation == [error |-> "ValueError", value |-> <<>>]

\* (sym_mask + sym_mask.t()) / 2
SymmetrizeMutant(m) == m
Symmetrize(m) ==
    [i \in ENodes |-> [j \in ENodes |-> (m[i][j] + m[j][i]) \div 2]]

\* ExplainerModel._get_adj_mask(with_zeroing)
GetAdjMask(s, with_zeroing) ==
    IF s.mask_act \notin {"sigmoid", "relu"}
    THEN UnsupportedActivation
    ELSE LET act == [i \in ENodes |-> [j \in ENodes |->
                        IF s.mask_act = "sigmoid"
                        THEN sigmoid(s.mask[i][j], 2)
                        ELSE ReLU(s.mask[i][j])]]
             sym_mask == Symmetrize(act)
         IN  [error |-> None,
              value |-> IF with_zeroing
                        THEN [i \in ENodes |-> [j \in ENodes |->
                                 (IF s.adj[i][j] # 0 THEN 1 ELSE 0) * sym_mask[i][j]]]
                        ELSE sym_mask]

\* ExplainerModel._masked_adj(); mask_bias is None, so no bias is added.
MaskedAdj(s) ==
    LET sym_mask == GetAdjMask(s, FALSE)
    IN  IF sym_mask.error # None
        THEN sym_mask
        ELSE [error |-> None,
              value |-> [i \in ENodes |-> [j \in ENodes |->
                           s.adj[i][j] * sym_mask.value[i][j] * s.diag_mask[i][j]]]]

\* ExplainerModel._get_node_feats_mask()
GetNodeFeatsMask(s) ==
    IF s.mask_act = "sigmoid"
    THEN [error |-> None, value |-> [n \in ENodes |-> sigmoid(s.node_mask[n], 10)]]
    ELSE IF s.mask_act = "relu"
    THEN [error |-> None, value |-> [n \in ENodes |-> ReLU(s.node_mask[n])]]
    ELSE UnsupportedActivation

\* ExplainerModel._masked_node_feats(): x * node_mask, broadcast over the
\* feature channels.
MaskedNodeFeats(s) ==
    LET node_mask == GetNodeFeatsMask(s)
    IN  IF node_mask.error # None
        THEN node_mask
        ELSE [error |-> None,
              value |-> [n \in ENodes |-> s.x[n] * node_mask.value[n]]]

\* self.model(graph): the wrapped model is opaque; its output is determined by
\* its parameters and the graph it is handed.
ModelOutput(params, graph) == [params |-> params, adj |-> graph[1], x |-> graph[2]]

\* graph = [self.adj, masked_x]: the adjacency handed to the model is the
\* stored one, not the masked one.
ForwardGraphMutant(s, masked_x) == <<MaskedAdj(s).value, masked_x>>
ForwardGraph(s, masked_x) == <<s.adj, masked_x>>

\* ExplainerModel.forward(): (ypred, masked_x)
ForwardResult(s) ==
    LET masked_x == MaskedNodeFeats(s)
    IN  IF masked_x.error # None
        THEN [error |-> "ValueError", ypred |-> <<>>, masked_x |-> <<>>]
        ELSE [error |-> None,
              ypred |-> ModelOutput(s.model, ForwardGraph(s, masked_x.value)),
              masked_x |-> masked_x.value]

\* ExplainerModel.loss(pred): the activated node mask handed to the node and
\* entropy terms, and whether the entropy term takes log at a value <= 0
\* (log(m) at m = 0, log(1 - m) at m >= 1), which makes the loss NaN.
LossResult(s, pred) ==
    LET node_mask == GetNodeFeatsMask(s)
    IN  IF node_mask.error # None
        THEN [error |-> "ValueError", node_mask |-> <<>>, nan |-> FALSE,
              pred_loss |-> <<>>]
        ELSE [error |-> None,
              node_mask |-> node_mask.value,
              nan |-> \E n \in ENodes :
                         node_mask.value[n] <= 0 \/ One - node_mask.value[n] <= 0,
              pred_loss |-> [pred |-> pred, label |-> s.label,
                             init_probs |-> s.init_probs]]

\* explainer._get_adj_mask(with_zeroing) by the caller.
CallGetAdjMask ==
    /\ self.constructed
    /\ \E with_zeroing \in BOOLEAN :
          LET r == GetAdjMask(self, with_zeroing)
          IN  eRet' = [op |-> "_get_adj_mask", error |-> r.error,
                       with_zeroing |-> with_zeroing, value |-> r.value]
    /\ UNCHANGED <<self, built, camVars, graphVars>>

\* explainer._masked_adj() by the caller.
CallMaskedAdj ==
    /\ self.constructed
    /\ LET r == MaskedAdj(self)
       IN  eRet' = [op |-> "_masked_adj", error |-> r.error, value |-> r.value]
    /\ UNCHANGED <<self, built, camVars, graphVars>>

\* explainer() by the caller.
CallForward ==
    /\ self.constructed
    /\ LET r == ForwardResult(self)
       IN  eRet' = [op |-> "forward", error |-> r.error, ypred |-> r.ypred,
                    masked_x |-> r.masked_x]
    /\ UNCHANGED <<self, built, camVars, graphVars>>

\* explainer.loss(pred) by the caller, on the prediction forward() returned.
CallLoss ==
    /\ self.constructed
    /\ LET f == ForwardResult(self)
           r == LossResult(self, f.ypred)
       IN  eRet' = [op |-> "loss", error |-> r.error, node_mask |-> r.node_mask,
                    nan |-> r.nan, pred_loss |-> r.pred_loss]
    /\ UNCHANGED <<self, built, camVars, graphVars>>

\* The parameters backward() leaves a gradient on: the loss depends on the
\* node mask and on the wrapped model's parameters, never on the edge mask.
HasGrad == {"node_mask", "model"}

\* optimizer.step(): Adam moves every parameter it is bound to that has a
\* gradient; the new values depend on the opaque model and are any values.
OptimizerStep(s) ==
    LET moved == s.optimizer.params \cap HasGrad
    IN  {[s EXCEPT !.node_mask = nm, !.model = mp] :
            nm \in (IF "node_mask" \in moved
                    THEN [ENodes -> NodeRaw] ELSE {s.node_mask}),
            mp \in (IF "model" \in moved THEN ModelParams ELSE {s.model})}

\* One training step of the caller: forward, loss, backward, optimizer step.
TrainStep ==
    /\ self.constructed
    /\ LET f == ForwardResult(self)
       IN  IF f.error # None
           THEN /\ eRet' = [op |-> "train_step", error |-> f.error]
                /\ UNCHANGED self
           ELSE /\ self' \in OptimizerStep(self)
                /\ eRet' = [op |-> "train_step", error |-> None]
    /\ UNCHANGED <<built, camVars, graphVars>>

\* The instance is as its constructor left it: no method has been called yet.
Fresh == eRet.op = "__init__"

\* Construction with any init strategy and a supported activation, then one
\* edge-mask computation on the fresh instance (the computations are pure:
\* they read the instance and change nothing).
MaskNext ==
    \/ Construct(InitStrategies, {<<30, 70>>}, {"sigmoid", "relu"})
    \/ Fresh /\ CallGetAdjMask
    \/ Fresh /\ CallMaskedAdj

\* Construction (edge mask initialised "const"), then the training loop.
ExplNext ==
    \/ Construct({"const"}, InitProbs, MaskActivations)
    \/ CallForward
    \/ CallLoss
    \/ TrainStep

\* Construction (edge mask initialised "const"), then forward and loss on the
\* masks as constructed.
LossNext ==
    \/ Construct({"const"}, InitProbs, MaskActivations)
    \/ CallForward
    \/ CallLoss

\* Construction with any init strategy of the edge mask and a supported
\* activation, then forward and loss on the fresh instance.
ForwardNext ==
    \/ Construct(InitStrategies, {<<30, 70>>}, {"sigmoid", "relu"})
    \/ Fresh /\ CallForward
    \/ Fresh /\ CallLoss

(***************************************************************************)
(* utils/graph.py                                                          *)
(***************************************************************************)
\* Number of nodes of the input graphs (adj is NumNodes x NumNodes).
NumNodes == 3
\* Adjacency weights are drawn from 0 .. MaxWeight.
MaxWeight == 2
\* Thresholds are drawn from 0 .. MaxThreshold.
MaxThreshold == 1

GNodes == 0 .. (NumNodes - 1)
GWeights == 0 .. MaxWeight
GThresholds == 0 .. MaxThreshold
GMatrices == [GNodes -> [GNodes -> GWeights]]

\* Row-major enumeration of the index pairs of an n x n matrix, the order in
\* which nonzero() and boolean-mask indexing list the entries.
RowMajor == [k \in 1 .. (NumNodes * NumNodes) |->
                <<(k - 1) \div NumNodes, (k - 1) % NumNodes>>]

\* adj[adj < threshold] = 0
ZeroBelow(adj, threshold) ==
    [i \in GNodes |-> [j \in GNodes |->
        IF adj[i][j] < threshold THEN 0 ELSE adj[i][j]]]

\* np.nonzero(adj): the index pairs of the nonzero entries, row-major.
NonZero(adj) ==
    LET IsNz(p) == adj[p[1]][p[2]] # 0
    IN  SelectSeq(RowMajor, IsNz)

\* adj[adj > threshold]: the values strictly above the threshold, row-major.
WeightsAbove(adj, threshold) ==
    LET IsAbove(p) == adj[p[1]][p[2]] > threshold
        sel == SelectSeq(RowMajor, IsAbove)
    IN  [k \in 1 .. Len(sel) |-> adj[sel[k][1]][sel[k][2]]]

\* nx.isolates(graph): the nodes of degree 0 (in-degree plus out-degree; a
\* self-loop counts in both).
Isolates(nodes, edges) ==
    {n \in nodes : \A e \in edges : e[1] # n /\ e[2] # n}

\* nx.convert_node_labels_to_integers: node n gets its rank in node order.
Relabel(nodes, n) == Cardinality({m \in nodes : m < n})

\* What adj_to_networkx raised (raised # None) or the graph it returned.
\* attrs is the set of attribute keys set on every node of the graph; adj is
\* the caller's matrix after the call (it is thresholded in place).
GraphResult(raised, nodes, edges, weight, attrs, adj) ==
    [raised |-> raised, nodes |-> nodes, edges |-> edges, weight |-> weight,
     attrs |-> attrs, adj |-> adj]

adj_to_networkx(adj, node_importance, threshold, max_component, rm_iso_nodes, centroids) ==
    LET zeroed == ZeroBelow(adj, threshold)
        edge_list == NonZero(zeroed)
        weights == WeightsAbove(zeroed, threshold)
        attrs == {"feats"}
                   \cup (IF centroids # None THEN {"centroid"} ELSE {})
                   \cup (IF node_importance # None THEN {"node_importance"} ELSE {})
        edges == {edge_list[k] : k \in 1 .. Len(edge_list)}
        weight == [e \in edges |->
                     LET k == CHOOSE q \in 1 .. Len(edge_list) : edge_list[q] = e
                     IN  weights[k]]
        iso == Isolates(GNodes, edges)
        kept == GNodes \ iso
    IN  IF Len(edge_list) > Len(weights)
        THEN \* weights[idx] with idx >= len(weights)
             GraphResult("IndexError", {}, {}, <<>>, {}, zeroed)
        ELSE IF max_component
        THEN \* nx.connected_components is not implemented for DiGraph
             GraphResult("NetworkXNotImplemented", {}, {}, <<>>, {}, zeroed)
        ELSE IF rm_iso_nodes
        THEN LET newEdges == {<<Relabel(kept, e[1]), Relabel(kept, e[2])>> : e \in edges}
             IN  GraphResult(None,
                             {Relabel(kept, n) : n \in kept},
                             newEdges,
                             [ne \in newEdges |->
                                 LET e == CHOOSE o \in edges :
                                            ne = <<Relabel(kept, o[1]), Relabel(kept, o[2])>>
                                 IN  weight[e]],
                             attrs, zeroed)
        ELSE GraphResult(None, GNodes, edges, weight, attrs, zeroed)

\* The keys adj_to_dgl asks from_networkx to copy: nx.get_node_attributes
\* returns a (possibly empty) dict and never raises, so no candidate is skipped.
NodeKeys(networkx_graph) ==
    LET Try(cand_key) == TRUE   \* nx.get_node_attributes(...) did not raise
    IN  SelectSeq(<<"node_importance", "centroid", "feats">>, Try)

adj_to_dgl(adj, node_importance, threshold, max_component, rm_iso_nodes, centroids) ==
    LET networkx_graph == adj_to_networkx(adj, node_importance, threshold,
                                          max_component, rm_iso_nodes, centroids)
        node_keys == NodeKeys(networkx_graph)
        missing == {node_keys[k] : k \in 1 .. Len(node_keys)} \ networkx_graph.attrs
    IN  IF networkx_graph.raised # None
        THEN [raised |-> networkx_graph.raised, node_keys |-> <<>>,
              graph |-> networkx_graph]
        ELSE [raised |-> IF missing # {} /\ networkx_graph.nodes # {}
                         THEN "KeyError" ELSE None,
              node_keys |-> node_keys,
              graph |-> networkx_graph]

GraphIdle ==
    /\ gAdj = None
    /\ gThreshold = 0
    /\ gPc = "idle"
    /\ gRet = [fn |-> "none"]

GraphInit ==
    /\ gAdj \in GMatrices
    /\ gThreshold \in GThresholds
    /\ gPc = "input"
    /\ gRet = [fn |-> "none"]

\* One call of adj_to_networkx on the input.
AdjToNetworkx ==
    /\ gPc = "input"
    /\ \E node_importance \in {None, "given"}, centroids \in {None, "given"},
          max_component \in BOOLEAN, rm_iso_nodes \in BOOLEAN :
          LET g == adj_to_networkx(gAdj, node_importance, gThreshold,
                                   max_component, rm_iso_nodes, centroids)
          IN  /\ gRet' = [fn |-> "adj_to_networkx",
                          node_importance |-> node_importance,
                          centroids |-> centroids,
                          max_component |-> max_component,
                          rm_iso_nodes |-> rm_iso_nodes,
                          input |-> gAdj,
                          raised |-> g.raised,
                          node_keys |-> <<>>,
                          graph |-> g]
              /\ gAdj' = g.adj
    /\ gPc' = "returned"
    /\ UNCHANGED <<gThreshold, camVars, explVars>>

\* One call of adj_to_dgl on the input.
AdjToDgl ==
    /\ gPc = "input"
    /\ \E node_importance \in {None, "given"}, centroids \in {None, "given"},
          max_component \in BOOLEAN, rm_iso_nodes \in BOOLEAN :
          LET d == adj_to_dgl(gAdj, node_importance, gThreshold,
                              max_component, rm_iso_nodes, centroids)
          IN  /\ gRet' = [fn |-> "adj_to_dgl",
                          node_importance |-> node_importance,
                          centroids |-> centroids,
                          max_component |-> max_component,
                          rm_iso_nodes |-> rm_iso_nodes,
                          input |-> gAdj,
                          raised |-> d.raised,
                          node_keys |-> d.node_keys,
                          graph |-> d.graph]
              /\ gAdj' = d.graph.adj
    /\ gPc' = "returned"
    /\ UNCHANGED <<gThreshold, camVars, explVars>>

GraphNext == AdjToNetworkx \/ AdjToDgl

(***************************************************************************)
(* Specifications                                                          *)
(***************************************************************************)
InitGraph == GraphInit /\ CamIdle /\ ExplIdle

SpecGraph == InitGraph /\ [][GraphNext]_vars

InitCam == CamInit /\ GraphIdle /\ ExplIdle

SpecCam == InitCam /\ [][CamNext]_vars

InitExpl == ExplInit /\ CamIdle /\ GraphIdle

SpecExplainer == InitExpl /\ [][ExplNext]_vars

SpecMask == InitExpl /\ [][MaskNext]_vars

SpecLoss == InitExpl /\ [][LossNext]_vars

SpecForward == InitExpl /\ [][ForwardNext]_vars

(***************************************************************************)
(* Claims about cam.py (checked under SpecCam)                             *)
(***************************************************************************)
\* The handles registered by the constructor of the object e.
OwnHandles(e) == {h \in 1 .. Len(handles) : handles[h].owner = e}

\* lastCall is the outcome of a __call__ of an extractor.
IsCall == lastCall.op = "__call__"

\* C1: an extractor invoked when no forward pass has gone through the hooked
\* model raises the precondition error (AssertionError) and does not reach
\* _get_weights, for _LegacyCAM and for _CAM.
C1_CallBeforeForwardRaisesPrecondition ==
    (IsCall /\ passes = 0) =>
        (lastCall.error = "AssertionError" /\ ~lastCall.weights)

\* C5: an extractor invoked with class_idx < 0 after a forward pass it captured
\* raises the validation error (ValueError) before any weights are derived and
\* returns no CAM, for _LegacyCAM and for _CAM.
C5_NegativeClassIdxRaisesValidation ==
    (IsCall /\ lastCall.class_idx < 0 /\ ext[lastCall.ext].hook_a.data # <<>>) =>
        (lastCall.error = "ValueError" /\ ~lastCall.weights /\ lastCall.uses = <<>>)

\* C8: right after a forward pass, the buffer of every extractor whose hooks
\* are enabled and attached holds exactly that pass's activations, one per
\* registered hook (one tensor for _LegacyCAM), and a CAM never combines
\* activations of different forward passes.
C8_BufferHoldsMostRecentPassOnly ==
    /\ (lastCall.op = "forward" /\ lastCall.error = None) =>
          \A e \in ExtIds :
             (/\ ext[e].kind \in {"legacy", "cam"}
              /\ ext[e].hooks_enabled = "on"
              /\ OwnHandles(e) \subseteq attached) =>
                 /\ Len(ext[e].hook_a.data) = Cardinality(OwnHandles(e))
                 /\ \A k \in 1 .. Len(ext[e].hook_a.data) :
                       ext[e].hook_a.data[k].pass = passes
    /\ (IsCall /\ lastCall.error = None) =>
          \A j, k \in 1 .. Len(lastCall.uses) :
             lastCall.uses[j].pass = lastCall.uses[k].pass

\* C12: hook ownership is per extractor instance. A clear_hooks call of an
\* extractor detaches exactly the hooks that extractor's constructor
\* registered and no others, so every other extractor's hooks stay attached
\* and it keeps capturing, for _LegacyCAM and for _CAM.
C12_ClearHooksDetachesOwnHooksOnly ==
    [][lastCall'.op = "clear_hooks" =>
          attached' = attached \ OwnHandles(lastCall'.ext)]_vars

\* C13: a failed construction leaves the model as it was. When the
\* constructor of _LegacyCAM or _CAM has raised the lookup error for a missing
\* layer name, no forward hook registered by that constructor call is
\* attached to the model.
C13_FailedConstructionLeavesNoHooks ==
    (/\ lastCall.op \in {"_LegacyCAM.__init__", "_CAM.__init__"}
     /\ lastCall.error = "ValueError") =>
        OwnHandles(lastCall.ext) \cap attached = {}

(***************************************************************************)
(* Claims about explainer_model.py (checked under SpecMask, SpecExplainer) *)
(***************************************************************************)
IsSymmetric(m) == \A i, j \in ENodes : m[i][j] = m[j][i]

ZeroDiagonal(m) == \A i \in ENodes : m[i][i] = 0

\* The non-zero pattern of the matrix m is symmetric.
SymmetricSupport(m) == \A i, j \in ENodes : (m[i][j] # 0) <=> (m[j][i] # 0)

\* eRet is the value a call of `op` returned.
Returned(op) == eRet.op = op /\ eRet.error = None

\* C3 (as stated): the mask returned by _get_adj_mask, for either value of
\* with_zeroing, and the masked adjacency returned by _masked_adj, for any
\* adjacency, are symmetric and have a zero diagonal.
C3_MasksSymmetricWithZeroDiagonal ==
    (Returned("_get_adj_mask") \/ Returned("_masked_adj")) =>
        (IsSymmetric(eRet.value) /\ ZeroDiagonal(eRet.value))

\* C3 (amended): _get_adj_mask returns a symmetric mask when with_zeroing is
\* off or the non-zero pattern of adj is symmetric, and with_zeroing on it is
\* zero wherever adj is zero; _masked_adj returns a matrix with a zero
\* diagonal for any adjacency, symmetric when adj is symmetric.
C3_SymmetricMaskAndZeroDiagonalMaskedAdj ==
    /\ Returned("_get_adj_mask") =>
          /\ (~eRet.with_zeroing \/ SymmetricSupport(self.adj)) =>
                IsSymmetric(eRet.value)
          /\ eRet.with_zeroing =>
                \A i, j \in ENodes : self.adj[i][j] = 0 => eRet.value[i][j] = 0
    /\ Returned("_masked_adj") =>
          /\ ZeroDiagonal(eRet.value)
          /\ IsSymmetric(self.adj) => IsSymmetric(eRet.value)

\* C3 witness: _masked_adj has returned a non-zero masked adjacency for a
\* directed adjacency and a raw mask that is not symmetric.
C3_Witness ==
    /\ Returned("_masked_adj")
    /\ ~IsSymmetric(self.adj)
    /\ ~IsSymmetric(self.mask)
    /\ \E i, j \in ENodes : eRet.value[i][j] # 0

\* C4: constructing an ExplainerModel with an unsupported mask_activation
\* fails with a configuration error and leaves no instance.
C4_UnsupportedActivationFailsAtConstruction ==
    /\ (eRet.op = "__init__" /\ eRet.mask_activation \notin {"sigmoid", "relu"}) =>
          eRet.error = "ValueError"
    /\ self.constructed => self.mask_act \in {"sigmoid", "relu"}

\* C9: every activated node-mask value m handed to the entropy term of loss
\* satisfies 0 < m < 1.
C9_EntropyTermInsideUnitInterval ==
    Returned("loss") =>
        \A n \in ENodes : 0 < eRet.node_mask[n] /\ eRet.node_mask[n] < One

\* C10: in every state of the training loop the optimizer is bound to the raw
\* edge mask and the raw node mask only, every attribute of the explainer
\* other than those two (the wrapped model's parameters, adj, x, init_probs,
\* label among them) equals its value at construction, and label is an
\* arg-max of init_probs.
C10_TrainingChangesOnlyTheMasks ==
    self.constructed =>
        /\ self.optimizer.params = {"mask", "node_mask"}
        /\ [self EXCEPT !.mask = built.mask, !.node_mask = built.node_mask] = built
        /\ \A k \in 1 .. Len(self.init_probs) :
              self.init_probs[k] <= self.init_probs[self.label + 1]

\* C10 witness: a training step has moved the raw node mask away from its
\* initial value.
C10_Witness ==
    /\ Returned("train_step")
    /\ self.node_mask # built.node_mask

\* The instance s with its raw edge mask replaced by m, everything else
\* (model, adj, x, init_probs, raw node mask) as it is.
WithEdgeMask(s, m) == [s EXCEPT !.mask = m]

\* Raw edge masks to compare the instance's own with: the constant one and
\* the entry-wise negation of its own.
OtherEdgeMasks(s) ==
    BuildEdgeMask("const") \cup {[i \in ENodes |-> [j \in ENodes |-> -s.mask[i][j]]]}

\* C11: forward and loss do not depend on the raw edge mask. What forward
\* returned (ypred, masked_x) and what loss returned are what the same instance
\* with any other raw edge mask returns, and the adjacency forward handed to
\* the model is the stored, unmasked adj.
C11_ForwardAndLossIgnoreEdgeMask ==
    /\ Returned("forward") =>
          /\ eRet.ypred.adj = self.adj
          /\ \A m \in OtherEdgeMasks(self) :
                LET r == ForwardResult(WithEdgeMask(self, m))
                IN  eRet.ypred = r.ypred /\ eRet.masked_x = r.masked_x
    /\ Returned("loss") =>
          \A m \in OtherEdgeMasks(self) :
             LET t == WithEdgeMask(self, m)
                 r == LossResult(t, ForwardResult(t).ypred)
             IN  /\ eRet.node_mask = r.node_mask
                 /\ eRet.nan = r.nan
                 /\ eRet.pred_loss = r.pred_loss

\* C11 witness: forward has returned on an instance whose raw edge mask is
\* not the constant one and whose masked adjacency differs from adj.
C11_Witness ==
    /\ Returned("forward")
    /\ self.mask \notin BuildEdgeMask("const")
    /\ MaskedAdj(self).value # self.adj
    /\ \E i, j \in ENodes : i # j /\ self.adj[i][j] # 0

(***************************************************************************)
(* Claims about utils/graph.py (checked under SpecGraph)                   *)
(***************************************************************************)
\* The edges the documentation promises for the input matrix A and
\* threshold t: the off-diagonal entries strictly above the threshold.
PromisedEdges(A, t) ==
    {p \in GNodes \X GNodes : p[1] # p[2] /\ A[p[1]][p[2]] > t}

\* The entries of A strictly above the threshold, the diagonal included.
AboveThreshold(A, t) ==
    {p \in GNodes \X GNodes : A[p[1]][p[2]] > t}

\* C2: with max_component and rm_iso_nodes off, adj_to_networkx returns a
\* directed graph whose edge set is exactly {(i,j) : i # j and A[i][j] > t}.
C2_EdgesAreOffDiagonalAboveThreshold ==
    (/\ gPc = "returned"
     /\ gRet.fn = "adj_to_networkx"
     /\ ~gRet.max_component
     /\ ~gRet.rm_iso_nodes) =>
        /\ gRet.raised = None
        /\ gRet.graph.edges = PromisedEdges(gRet.input, gThreshold)

\* C6: with rm_iso_nodes = True (max_component off), adj_to_networkx returns
\* a graph whose node IDs are exactly 0 .. n-1, n the number of nodes with an
\* incident above-threshold edge, and with as many edges as there are
\* above-threshold entries (the edges before the isolated nodes are removed).
C6_IsolatedNodesRemovedAndRelabelled ==
    (/\ gPc = "returned"
     /\ gRet.fn = "adj_to_networkx"
     /\ ~gRet.max_component
     /\ gRet.rm_iso_nodes) =>
        LET above == AboveThreshold(gRet.input, gThreshold)
            n == Cardinality({v \in GNodes :
                                \E p \in above : p[1] = v \/ p[2] = v})
        IN  /\ gRet.raised = None
            /\ gRet.graph.nodes = 0 .. (n - 1)
            /\ Cardinality(gRet.graph.edges) = Cardinality(above)

\* C7: adj_to_dgl does not ask to copy node_importance when node_importance
\* is None, nor centroid when centroids is None.
C7_OnlyPresentAttributesRequested ==
    (/\ gPc = "returned"
     /\ gRet.fn = "adj_to_dgl"
     /\ gRet.raised \in {None, "KeyError"}) =>
        LET keys == {gRet.node_keys[k] : k \in 1 .. Len(gRet.node_keys)}
        IN  /\ gRet.node_importance = None => "node_importance" \notin keys
            /\ gRet.centroids = None => "centroid" \notin keys

====
